---- MODULE Spec2Model ----
(***************************************************************************)
(* Puzzle-attempt ("Try") lifecycle of the AlgoHive API.                   *)
(*                                                                         *)
(* Request handlers GetInputFromCompetition and AnswerPuzzle run as        *)
(* concurrent processes over one PostgreSQL table of tries, through         *)
(* services.TriggerPuzzleFirstTry, UpdateTry, EndTry and CheckRateLimit,   *)
(* and hand their events to the realtime broadcaster.                      *)
(*                                                                         *)
(* Database semantics (gorm.io/gorm on gorm.io/driver/postgres,            *)
(* src/database/database.go:18-19, READ COMMITTED):                        *)
(*  - tx.Set("gorm:query_option", "FOR UPDATE") is a setting key of the    *)
(*    former jinzhu/gorm API; gorm.io/gorm reads no such key when it       *)
(*    builds a query, so First() issues a plain SELECT: it takes no row    *)
(*    lock and never waits (and a SELECT ... FOR UPDATE that matches no    *)
(*    row would lock nothing either);                                      *)
(*  - Save() is UPDATE of all columns WHERE id = ?: it waits for the row   *)
(*    lock, then holds it until the transaction ends;                      *)
(*  - Create() is INSERT: the unique index unique_try makes it wait for    *)
(*    an uncommitted insert of the same key and fail once such a row is    *)
(*    committed;                                                           *)
(*  - the writes of a transaction become visible at Commit;                *)
(*  - the deferred `if tx.Error != nil { tx.Rollback() }` never fires:     *)
(*    every call on tx works on a new *gorm.DB, the error is recorded      *)
(*    there and tx.Error stays nil. A return without Commit or Rollback    *)
(*    leaves the transaction open with its row locks;                      *)
(*  - the statements succeed otherwise: the database stays reachable,      *)
(*    except in SpecFault, where the load of the user that follows a       *)
(*    commit may fail.                                                     *)
(*                                                                         *)
(* Realtime semantics (package realtime, gorilla/websocket):               *)
(*  - broadcast is an unbuffered channel: a send completes when            *)
(*    handleBroadcast receives, and handleBroadcast receives only between  *)
(*    two turns of its loop;                                               *)
(*  - one turn of the loop holds the mutex from the first write to the     *)
(*    last, so RegisterClient and UnregisterClient come before or after    *)
(*    it: the turn is one step;                                            *)
(*  - WriteJSON can fail on a connection whose peer is gone.               *)
(*                                                                         *)
(* The permission endpoint (handler UserHasPermissionToViewPuzzle) reads   *)
(* its Redis entry, else asks services.UserHasPermissionToViewPuzzle.      *)
(*                                                                         *)
(* utils.CalculateScore and middleware.RateLimiter are modelled alone, on  *)
(* drawn arguments and under concurrent requests (SpecScore, SpecLimiter). *)
(***************************************************************************)
EXTENDS Integers, Sequences, FiniteSets, TLC

(* ---- bounds of the model ---- *)
NumProcs == 2           \* concurrent request handlers
MaxIndex == 0           \* puzzle indexes 0..MaxIndex
MaxCalls == 4           \* requests started in one behaviour, handlers concurrent
MaxTime == 2            \* last clock tick, handlers concurrent
SeqMaxCalls == 6        \* requests started in one behaviour, one request at a time
SeqMaxTime == 7         \* last clock tick, one request at a time
TicksPerSecond == 2     \* clock ticks per second (time.Now() is finer than RFC3339)
SecondsPerMinute == 1   \* time scale: seconds that stand for one minute
RlMaxAttempts == 6      \* CheckRateLimit alone: attempts 0..RlMaxAttempts
RlMaxMinutes == 6       \* CheckRateLimit alone: time.Now() within RlMaxMinutes minutes
GateMaxIndex == 1       \* the visibility gate: puzzle indexes 0..GateMaxIndex
GateMaxCalls == 4       \* the visibility gate: requests started in one behaviour
GateMaxTime == 1        \* the visibility gate: last clock tick
HubMaxCalls == 2        \* subscribers connected: requests started in one behaviour
HubMaxTime == 1         \* subscribers connected: last clock tick
NumConns == 2           \* WebSocket connections opened in one behaviour
NumCompetitions == 2    \* competitions a subscriber can watch
FaultMaxCalls == 3      \* user loads failing: requests started in one behaviour
FaultMaxTime == 1       \* user loads failing: last clock tick
LiveMaxCalls == 2       \* the hub's mutex: requests started in one behaviour
LiveMaxTime == 1        \* the hub's mutex: last clock tick
LiveMaxConns == 1       \* the hub's mutex: WebSocket connections opened

\* CalculateScore alone: puzzle indexes h * 100 + i, attempts, half minutes
ScoreMaxHundreds == 1
ScoreMaxIndex == 2
ScoreMaxAttempts == 11
ScoreMaxHalfMinutes == 63

\* middleware.RateLimiter alone: client addresses, configurations, load
NumIps == 2
LimMaxRate == 2
LimMaxBurst == 3
LimMaxCalls == 5
LimMaxTime == 4

Procs == 1..NumProcs
Steps == {1, 2}
Conns == 1..NumConns
Competitions == 1..NumCompetitions

(* ---- time ---- *)
Second == TicksPerSecond
Minute == SecondsPerMinute * Second

\* time.Now().Format(time.RFC3339): the instant cut to whole seconds
FormatRFC3339(t) == t \div TicksPerSecond

\* time.Parse(time.RFC3339, s): the instant of a whole second, in ticks
ParseRFC3339(s) == s * TicksPerSecond

(* ---- models.Try ---- *)
Null == -1      \* nil pointer (EndTime, LastMoveTime, LastAnswer)
CompetitionID == 1      \* competition.ID of the requests
Answer == 1     \* the submitted answer

\* models.Try{}: the zero value (ID "")
NoTry ==
    [id |-> 0, index |-> 0, step |-> 0, start |-> 0, end |-> Null,
     attempts |-> 0, score |-> 0, lastMove |-> Null, lastAnswer |-> Null]

\* the literal models.Try{...} of TriggerPuzzleFirstTry and EndTry
NewTry(idx, st, t) ==
    [id |-> 0, index |-> idx, step |-> st, start |-> FormatRFC3339(t),
     end |-> Null, attempts |-> 0, score |-> 0, lastMove |-> Null,
     lastAnswer |-> Null]

(* ---- config.DefaultRateLimitConfig ---- *)
DefaultRateLimitConfig ==
    [AttemptsThreshold1 |-> 3, CooldownDuration1 |-> 3 * Minute,
     AttemptsThreshold2 |-> 5, CooldownDuration2 |-> 5 * Minute]

\* CheckRateLimit with the lower threshold tested first
CheckRateLimitLowFirst(try, config, t) ==
    IF try.lastMove = Null
    THEN [blocked |-> FALSE, remaining |-> 0]
    ELSE LET lastMove == ParseRFC3339(try.lastMove)
             end2 == lastMove + config.CooldownDuration2
             end1 == lastMove + config.CooldownDuration1
         IN IF try.attempts >= config.AttemptsThreshold1
            THEN IF t < end1
                 THEN [blocked |-> TRUE, remaining |-> end1 - t]
                 ELSE [blocked |-> FALSE, remaining |-> 0]
            ELSE IF try.attempts >= config.AttemptsThreshold2
            THEN IF t < end2
                 THEN [blocked |-> TRUE, remaining |-> end2 - t]
                 ELSE [blocked |-> FALSE, remaining |-> 0]
            ELSE [blocked |-> FALSE, remaining |-> 0]

\* services.CheckRateLimit, with time.Now() as the parameter t
CheckRateLimit(try, config, t) ==
    IF try.lastMove = Null
    THEN [blocked |-> FALSE, remaining |-> 0]
    ELSE LET lastMove == ParseRFC3339(try.lastMove)
             end2 == lastMove + config.CooldownDuration2
             end1 == lastMove + config.CooldownDuration1
         IN IF try.attempts >= config.AttemptsThreshold2
            THEN IF t < end2
                 THEN [blocked |-> TRUE, remaining |-> end2 - t]
                 ELSE [blocked |-> FALSE, remaining |-> 0]
            ELSE IF try.attempts >= config.AttemptsThreshold1
            THEN IF t < end1
                 THEN [blocked |-> TRUE, remaining |-> end1 - t]
                 ELSE [blocked |-> FALSE, remaining |-> 0]
            ELSE [blocked |-> FALSE, remaining |-> 0]

VARIABLES
    now,        \* the clock, in ticks
    env,        \* config.Env
    tries,      \* committed rows of table tries
    nextId,     \* next gen_random_uuid()
    pc,         \* per handler: position
    req,        \* per handler: the request (operation, puzzle index, step)
    loc,        \* per handler: existingTry and newTry / nextTry
    tx,         \* per handler: its open transaction (pending update and insert)
    result,     \* per handler: what the service call returned
    leaked,     \* transactions left open: their number and their row locks
    hubPc,      \* handleBroadcast: "recv" or "fanout"
    hubUpdate,  \* handleBroadcast: the update in hand
    hist,       \* per key: calls of UpdateTry / EndTry that returned nil error
    calls,      \* requests started
    sched,      \* the load: requests concurrent or one at a time, and its bounds
    rl,         \* CheckRateLimit alone: input and output
    oracle,     \* per handler: the catalog's response to the solution check
    permCache,  \* Redis perm_check entries of the user, per puzzle index
    perm,       \* per handler: the has_permission answer
    clients,    \* competitionClients: per competition, its registered connections
    conn,       \* per WebSocket connection: its state and its competition
    delivered,  \* per connection: the updates written to it, in order
    received,   \* updates handleBroadcast has taken from the channel
    dispatch,   \* the last fan-out: its update, the connections written and failed
    sent,       \* per handler: the kinds of the updates its request has sent
    score,      \* CalculateScore alone: input and output
    limiter     \* middleware.RateLimiter: its visitors and the requests inside Allow

gateVars == <<permCache, perm>>

hubVars == <<clients, conn, delivered, received, dispatch, sent>>

utilVars == <<score, limiter>>

vars == <<now, env, tries, nextId, pc, req, loc, tx, result, leaked,
          hubPc, hubUpdate, hist, calls, sched, rl, oracle, gateVars, hubVars, utilVars>>

\* the puzzle indexes of the load
Indexes == 0..sched.maxIndex

Keys == Indexes \X Steps

\* the rows WHERE puzzle_index = idx AND step = st (competition, user, puzzle fixed)
Rows(table, idx, st) == {r \in table : r.index = idx /\ r.step = st}

\* .First(&try): a matching row, or NoTry for gorm.ErrRecordNotFound
First(table, idx, st) ==
    IF Rows(table, idx, st) = {} THEN NoTry
    ELSE CHOOSE r \in Rows(table, idx, st) : \A s \in Rows(table, idx, st) : r.id <= s.id

NoTx == [open |-> FALSE, upd |-> NoTry, ins |-> NoTry]
NoReq == [name |-> "none", index |-> 0, step |-> 0]
NoLoc == [try |-> NoTry, new |-> NoTry]
NoResult == [err |-> "none", try |-> NoTry, wait |-> 0]
NoPerm == [asked |-> FALSE, has |-> FALSE, cached |-> FALSE]
NoEntry == [value |-> "", expires |-> 0]
NoConn == [state |-> "none", competition |-> 0]
NoDispatch == [n |-> 0, competition |-> 0, written |-> {}, failed |-> {}]

\* realtime.TryUpdate{CompetitionID, Try, UpdateType}; n numbers the updates in
\* the order in which they are handed to the channel
TryUpdate(type, try) ==
    [n |-> received + 1, competition |-> CompetitionID, try |-> try, type |-> type]

NoUpdate == [n |-> 0, competition |-> 0, try |-> NoTry, type |-> "none"]

\* row lock of UPDATE: held by another open transaction or by one left open
RowLocked(p, id) ==
    \/ id \in leaked.locks
    \/ \E q \in Procs \ {p} : tx[q].open /\ tx[q].upd.id = id

\* unique index unique_try: an uncommitted insert of the same key by another transaction
InsertWaits(p, idx, st) ==
    \E q \in Procs \ {p} : tx[q].open /\ tx[q].ins # NoTry
                           /\ tx[q].ins.index = idx /\ tx[q].ins.step = st

\* a table without the unique index
UniqueViolationOff(table, idx, st) == FALSE

\* unique index unique_try: a committed row with the same key
UniqueViolation(table, idx, st) == Rows(table, idx, st) # {}

\* Commit: the pending update replaces its row, the pending insert is added
Apply(table, t) ==
    LET upd == IF t.upd = NoTry THEN table
               ELSE {r \in table : r.id # t.upd.id} \cup {t.upd}
    IN IF t.ins = NoTry THEN upd ELSE upd \cup {t.ins}

\* handlers concurrent
Concurrent ==
    [sequential |-> FALSE, maxCalls |-> MaxCalls, maxTime |-> MaxTime,
     maxIndex |-> MaxIndex, faults |-> FALSE, mutex |-> FALSE]

\* a request starts when no other is in progress
Sequential ==
    [sequential |-> TRUE, maxCalls |-> SeqMaxCalls, maxTime |-> SeqMaxTime,
     maxIndex |-> MaxIndex, faults |-> FALSE, mutex |-> FALSE]

\* one request at a time over the puzzle indexes 0..GateMaxIndex
Gated ==
    [sequential |-> TRUE, maxCalls |-> GateMaxCalls, maxTime |-> GateMaxTime,
     maxIndex |-> GateMaxIndex, faults |-> FALSE, mutex |-> FALSE]

\* one request at a time, the database failing some user loads
Faulty ==
    [sequential |-> TRUE, maxCalls |-> FaultMaxCalls, maxTime |-> FaultMaxTime,
     maxIndex |-> MaxIndex, faults |-> TRUE, mutex |-> FALSE]

\* handlers concurrent, with WebSocket subscribers, the steps of the hub's
\* mutex apart
Locking ==
    [sequential |-> FALSE, maxCalls |-> LiveMaxCalls, maxTime |-> LiveMaxTime,
     maxIndex |-> MaxIndex, faults |-> FALSE, mutex |-> TRUE]

\* handlers concurrent, with WebSocket subscribers
Watched ==
    [sequential |-> FALSE, maxCalls |-> HubMaxCalls, maxTime |-> HubMaxTime,
     maxIndex |-> MaxIndex, faults |-> FALSE, mutex |-> FALSE]

\* the server up, with no request in progress and no subscriber
Idle ==
    /\ now = 0
    /\ env \in {"development", "production"}
    /\ pc = [p \in Procs |-> "idle"]
    /\ req = [p \in Procs |-> NoReq]
    /\ loc = [p \in Procs |-> NoLoc]
    /\ tx = [p \in Procs |-> NoTx]
    /\ result = [p \in Procs |-> NoResult]
    /\ leaked = [n |-> 0, locks |-> {}]
    /\ hubPc = "recv"
    /\ hubUpdate = NoUpdate
    /\ calls = 0
    /\ oracle = [p \in Procs |-> "none"]
    /\ permCache = [i \in Indexes |-> NoEntry]
    /\ perm = [p \in Procs |-> NoPerm]
    /\ clients = [k \in Competitions |-> {}]
    /\ conn = [c \in Conns |-> NoConn]
    /\ delivered = [c \in Conns |-> <<>>]
    /\ received = 0
    /\ dispatch = NoDispatch
    /\ sent = [p \in Procs |-> <<>>]

\* the server up on an empty table of tries
Start ==
    /\ tries = {}
    /\ nextId = 1
    /\ hist = [k \in Keys |-> [upd |-> 0, end |-> 0]]
    /\ Idle

\* the try of index idx, step 1, after TriggerPuzzleFirstTry and n UpdateTry
\* calls made at instant t
AnsweredTry(idx, n, t) ==
    [NewTry(idx, 1, t) EXCEPT !.id = 1, !.attempts = n,
                              !.lastMove = IF n = 0 THEN Null ELSE FormatRFC3339(t),
                              !.lastAnswer = IF n = 0 THEN Null ELSE Answer]

NoRl == [try |-> NoTry, now |-> 0, checked |-> FALSE,
         out |-> [blocked |-> FALSE, remaining |-> 0]]

NoScore == [puzzleLvl |-> "", puzzleIndex |-> 0, step |-> 0,
            startTime |-> [layout |-> "", t |-> 0], endTime |-> [layout |-> "", t |-> 0],
            attempts |-> 0, done |-> FALSE, out |-> 0, malus |-> 0]

\* a RateLimiter nobody called
NoLimiter == [rate |-> 0, burst |-> 0, visitors |-> <<>>, allow |-> <<>>]

\* the harnesses of the pure functions and of the middleware at rest
Rest == rl = NoRl /\ score = NoScore /\ limiter = NoLimiter

Init == sched = Concurrent /\ Rest /\ Start

InitSeq == sched = Sequential /\ Rest /\ Start

InitGate == sched = Gated /\ Rest /\ Start

InitHub == sched = Watched /\ Rest /\ Start

InitFault == sched = Faulty /\ Rest /\ Start

InitLive == sched = Locking /\ Rest /\ Start

\* subscribers and concurrent handlers, on a try one wrong answer short of
\* the first threshold of the rate limit
InitFeed ==
    /\ sched = Watched
    /\ Rest
    /\ Idle
    /\ LET n == DefaultRateLimitConfig.AttemptsThreshold1 - 1 IN
        /\ tries = {AnsweredTry(0, n, 0)}
        /\ hist = [k \in Keys |-> IF k = <<0, 1>> THEN [upd |-> n, end |-> 0]
                                  ELSE [upd |-> 0, end |-> 0]]
    /\ nextId = 2

\* the handler returns with result r
Done(p, r) ==
    /\ pc' = [pc EXCEPT ![p] = "done"]
    /\ result' = [result EXCEPT ![p] = r]

\* return without Commit or Rollback: the transaction stays open with its lock
Leak(p) ==
    /\ leaked' = [n |-> leaked.n + 1,
                  locks |-> IF tx[p].upd = NoTry THEN leaked.locks
                            ELSE leaked.locks \cup {tx[p].upd.id}]
    /\ tx' = [tx EXCEPT ![p] = NoTx]

\* the passing of time
Tick ==
    /\ now < sched.maxTime
    /\ now' = now + 1
    /\ UNCHANGED <<env, tries, nextId, pc, req, loc, tx, result, leaked,
                   hubPc, hubUpdate, hist, calls, sched, rl, oracle, gateVars, hubVars, utilVars>>


\* database.DB.Preload("Groups").First(&userWithGroup) after the commit:
\* whether the user is loaded
UserLoads == IF sched.faults THEN BOOLEAN ELSE {TRUE}

\* the budget of requests
CanStart(p) ==
    /\ pc[p] = "idle"
    /\ calls < sched.maxCalls
    /\ sched.sequential => \A q \in Procs : pc[q] = "idle"

\* UpdateTry / EndTry without the EndTime test
AlreadyFinishedOff(try) == FALSE

\* UpdateTry / EndTry: `if existingTry.EndTime != nil`
AlreadyFinished(try) == try.end # Null

\* UpdateTry: LastMoveTime, LastAnswer, Attempts++
UpdateFields(try, t) ==
    [try EXCEPT !.lastMove = FormatRFC3339(t), !.lastAnswer = Answer,
                !.attempts = @ + 1]

\* EndTry without Attempts++
EndFieldsNoCount(try, t) ==
    [try EXCEPT !.lastMove = FormatRFC3339(t), !.lastAnswer = Answer,
                !.score = 100, !.end = FormatRFC3339(t)]

\* EndTry: LastMoveTime, LastAnswer, Attempts++, Score = 100, EndTime
EndFields(try, t) ==
    [try EXCEPT !.lastMove = FormatRFC3339(t), !.lastAnswer = Answer,
                !.attempts = @ + 1, !.score = 100, !.end = FormatRFC3339(t)]

\* EndTry creating the next try on the wrong step
NextStepOnSecond(st) == st = 2

\* EndTry: `if step == 1`, the next step's try is created
NextStepNeeded(st) == st = 1

\* AnswerPuzzle ignoring isLimited
RateLimitIgnored(try, t) == FALSE

\* AnswerPuzzle: `if isLimited`, the answer to a blocked submission
RateLimited(try, t) == CheckRateLimit(try, DefaultRateLimitConfig, t).blocked

(* ---- GetInputFromCompetition -> TriggerPuzzleFirstTry ---- *)

\* Begin, First(&existingTry): found -> Commit and return it; else build newTry
TriggerPuzzleFirstTry(p) ==
    /\ CanStart(p)
    /\ \E idx \in Indexes :
        LET existingTry == First(tries, idx, 1) IN
        /\ req' = [req EXCEPT ![p] = [name |-> "trigger", index |-> idx, step |-> 1]]
        /\ calls' = calls + 1
        /\ IF existingTry # NoTry
           THEN /\ Done(p, [err |-> "", try |-> existingTry, wait |-> 0])
                /\ UNCHANGED <<loc, tx>>
           ELSE /\ pc' = [pc EXCEPT ![p] = "T_create"]
                /\ loc' = [loc EXCEPT ![p] = [NoLoc EXCEPT !.new = NewTry(idx, 1, now)]]
                /\ tx' = [tx EXCEPT ![p] = [NoTx EXCEPT !.open = TRUE]]
                /\ UNCHANGED result
    /\ UNCHANGED <<now, env, tries, nextId, leaked, hubPc, hubUpdate, hist, sched, rl, oracle, gateVars, hubVars, utilVars>>

\* tx.Create(&newTry): waits for an uncommitted insert of the key; fails on the
\* unique index (Try{}, nil in development; the error otherwise) and returns
\* with the transaction open
TriggerCreate(p) ==
    /\ pc[p] = "T_create"
    /\ ~InsertWaits(p, req[p].index, 1)
    /\ IF UniqueViolation(tries, req[p].index, 1)
       THEN /\ Done(p, [err |-> IF env = "development" THEN "" ELSE "failed to create try",
                        try |-> NoTry, wait |-> 0])
            /\ Leak(p)
            /\ UNCHANGED <<nextId, loc>>
       ELSE /\ tx' = [tx EXCEPT ![p].ins = [loc[p].new EXCEPT !.id = nextId]]
            /\ loc' = [loc EXCEPT ![p].new.id = nextId]
            /\ nextId' = nextId + 1
            /\ pc' = [pc EXCEPT ![p] = "T_commit"]
            /\ UNCHANGED <<result, leaked>>
    /\ UNCHANGED <<now, env, tries, req, hubPc, hubUpdate, hist, calls, sched, rl, oracle, gateVars, hubVars, utilVars>>

\* TriggerPuzzleFirstTry going to the broadcast without tx.Commit()
TriggerCommitSkipped(p) ==
    /\ pc[p] = "T_commit"
    /\ pc' = [pc EXCEPT ![p] = "T_bcast"]
    /\ UNCHANGED <<now, env, tries, nextId, req, loc, tx, result, leaked, hubPc,
                   hubUpdate, hist, calls, sched, rl, oracle, gateVars, hubVars, utilVars>>

\* tx.Commit(), then the user is loaded with its groups
TriggerCommit(p) ==
    /\ pc[p] = "T_commit"
    /\ tries' = Apply(tries, tx[p])
    /\ tx' = [tx EXCEPT ![p] = NoTx]
    /\ \E loaded \in UserLoads :
         IF loaded
         THEN /\ pc' = [pc EXCEPT ![p] = "T_bcast"]
              /\ UNCHANGED result
         ELSE Done(p, [err |-> "failed to fetch user", try |-> NoTry, wait |-> 0])
    /\ UNCHANGED <<now, env, nextId, req, loc, leaked, hubPc, hubUpdate,
                   hist, calls, sched, rl, oracle, gateVars, hubVars, utilVars>>

\* realtime.BroadcastTryUpdate("new"): the send on the unbuffered channel
\* completes when handleBroadcast receives; then newTry is returned
TriggerBroadcast(p) ==
    /\ pc[p] = "T_bcast"
    /\ hubPc = "recv"
    /\ hubPc' = "fanout"
    /\ hubUpdate' = TryUpdate("new", loc[p].new)
    /\ received' = received + 1
    /\ sent' = [sent EXCEPT ![p] = Append(@, "new")]
    /\ Done(p, [err |-> "", try |-> loc[p].new, wait |-> 0])
    /\ UNCHANGED <<now, env, tries, nextId, req, loc, tx, leaked, hist, calls, sched, rl, oracle, gateVars,
                   clients, conn, delivered, dispatch, utilVars>>


(* ---- AnswerPuzzle ---- *)

\* GetPuzzleTry, then CheckRateLimit: 429 with the wait when limited
AnswerPuzzle(p) ==
    /\ CanStart(p)
    /\ \E idx \in Indexes, st \in Steps :
        LET existingTry == First(tries, idx, st)
            isLimited == RateLimited(existingTry, now)
            remainingTime == CheckRateLimit(existingTry, DefaultRateLimitConfig, now).remaining
        IN
        /\ req' = [req EXCEPT ![p] = [name |-> "answer", index |-> idx, step |-> st]]
        /\ calls' = calls + 1
        /\ IF existingTry = NoTry
           THEN /\ Done(p, [err |-> "try not found", try |-> NoTry, wait |-> 0])
                /\ UNCHANGED loc
           ELSE IF isLimited
           THEN /\ Done(p, [err |-> "Rate limit exceeded", try |-> NoTry,
                            wait |-> remainingTime \div Second])
                /\ UNCHANGED loc
           ELSE /\ pc' = [pc EXCEPT ![p] = "A_check"]
                /\ UNCHANGED <<loc, result>>
    /\ UNCHANGED <<now, env, tries, nextId, tx, leaked, hubPc, hubUpdate, hist, sched, rl, oracle, gateVars, hubVars, utilVars>>

\* UpdateTry / EndTry: Begin, First(&existingTry), the EndTime test and the
\* new field values; fields is UpdateFields or EndFields
FetchTry(p, fields, next) ==
    LET existingTry == First(tries, req[p].index, req[p].step) IN
    IF existingTry = NoTry
    THEN /\ Done(p, [err |-> "failed to fetch try", try |-> NoTry, wait |-> 0])
         /\ leaked' = [leaked EXCEPT !.n = @ + 1]
         /\ UNCHANGED <<loc, tx>>
    ELSE IF AlreadyFinished(existingTry)
    THEN /\ Done(p, [err |-> "try already finished", try |-> NoTry, wait |-> 0])
         /\ UNCHANGED <<loc, tx, leaked>>
    ELSE /\ pc' = [pc EXCEPT ![p] = next]
         /\ loc' = [loc EXCEPT ![p].try = fields]
         /\ tx' = [tx EXCEPT ![p] = [NoTx EXCEPT !.open = TRUE]]
         /\ UNCHANGED <<result, leaked>>

\* what the catalog can answer to GET /puzzle/check: the request fails (no
\* answer, a status other than 200, a body that is not JSON), the body has no
\* "matches", "matches" is not a boolean, or "matches" is true or false
Responses == {"failed", "missing", "notbool", "true", "false"}

\* CheckPuzzleAnswer with an unchecked type assertion: a "matches" that is
\* not a boolean reads as false
CheckPuzzleAnswerUnchecked(resp) ==
    IF resp \in {"failed", "missing"}
    THEN [isCorrect |-> FALSE, err |-> "solution check failed"]
    ELSE [isCorrect |-> resp = "true", err |-> ""]

\* services.CheckPuzzleAnswer on the catalog's response: (isCorrect, err)
CheckPuzzleAnswerResult(resp) ==
    IF resp \in {"failed", "missing", "notbool"}
    THEN [isCorrect |-> FALSE, err |-> "solution check failed"]
    ELSE [isCorrect |-> resp = "true", err |-> ""]

\* AnswerPuzzle after services.CheckPuzzleAnswer: an error ends the request,
\* an incorrect answer enters UpdateTry, a correct one EndTry
CheckPuzzleAnswer(p) ==
    /\ pc[p] = "A_check"
    /\ \E resp \in Responses :
        LET existingTry == First(tries, req[p].index, req[p].step)
            checked == CheckPuzzleAnswerResult(resp)
        IN
        /\ oracle' = [oracle EXCEPT ![p] = resp]
        /\ IF checked.err # ""
           THEN /\ Done(p, [err |-> "Failed to check solution", try |-> NoTry, wait |-> 0])
                /\ UNCHANGED <<loc, tx, leaked>>
           ELSE IF ~checked.isCorrect
           THEN FetchTry(p, UpdateFields(existingTry, now), "U_save")
           ELSE FetchTry(p, EndFields(existingTry, now), "E_save")
    /\ UNCHANGED <<now, env, tries, nextId, req, hubPc, hubUpdate, hist, calls, sched,
                   rl, gateVars, hubVars, utilVars>>

\* the HTTP status AnswerPuzzle answers with, from the error it ended on:
\* err.Error() == "record not found" is the 400 of a missing try, the rate
\* limit is 429, every other error 500
AnswerPuzzleStatus(r) ==
    IF r.err = "" THEN 200
    ELSE IF r.err = "record not found" THEN 400
    ELSE IF r.err = "Rate limit exceeded" THEN 429
    ELSE 500

\* UpdateTry: tx.Save(&existingTry), waiting for the row lock
UpdateSave(p) ==
    /\ pc[p] = "U_save"
    /\ ~RowLocked(p, loc[p].try.id)
    /\ tx' = [tx EXCEPT ![p].upd = loc[p].try]
    /\ pc' = [pc EXCEPT ![p] = "U_commit"]
    /\ UNCHANGED <<now, env, tries, nextId, req, loc, result, leaked, hubPc,
                   hubUpdate, hist, calls, sched, rl, oracle, gateVars, hubVars, utilVars>>

\* UpdateTry: tx.Commit(), then the user is loaded with its groups
UpdateCommit(p) ==
    /\ pc[p] = "U_commit"
    /\ tries' = Apply(tries, tx[p])
    /\ tx' = [tx EXCEPT ![p] = NoTx]
    /\ \E loaded \in UserLoads :
         IF loaded
         THEN /\ pc' = [pc EXCEPT ![p] = "U_bcast"]
              /\ UNCHANGED result
         ELSE Done(p, [err |-> "failed to fetch user", try |-> NoTry, wait |-> 0])
    /\ UNCHANGED <<now, env, nextId, req, loc, leaked, hubPc, hubUpdate,
                   hist, calls, sched, rl, oracle, gateVars, hubVars, utilVars>>

\* UpdateTry: BroadcastTryUpdate("update"), then existingTry is returned
UpdateBroadcast(p) ==
    /\ pc[p] = "U_bcast"
    /\ hubPc = "recv"
    /\ hubPc' = "fanout"
    /\ hubUpdate' = TryUpdate("update", loc[p].try)
    /\ received' = received + 1
    /\ sent' = [sent EXCEPT ![p] = Append(@, "update")]
    /\ Done(p, [err |-> "", try |-> loc[p].try, wait |-> 0])
    /\ hist' = [hist EXCEPT ![<<req[p].index, req[p].step>>].upd = @ + 1]
    /\ UNCHANGED <<now, env, tries, nextId, req, loc, tx, leaked, calls, sched, rl, oracle, gateVars,
                   clients, conn, delivered, dispatch, utilVars>>

\* EndTry: tx.Save(&existingTry), waiting for the row lock
EndSave(p) ==
    /\ pc[p] = "E_save"
    /\ ~RowLocked(p, loc[p].try.id)
    /\ tx' = [tx EXCEPT ![p].upd = loc[p].try]
    /\ IF NextStepNeeded(req[p].step)
       THEN /\ pc' = [pc EXCEPT ![p] = "E_create"]
            /\ loc' = [loc EXCEPT ![p].new =
                         NewTry(loc[p].try.index, 2, ParseRFC3339(loc[p].try.end))]
       ELSE /\ pc' = [pc EXCEPT ![p] = "E_commit"]
            /\ UNCHANGED loc
    /\ UNCHANGED <<now, env, tries, nextId, req, result, leaked, hubPc, hubUpdate,
                   hist, calls, sched, rl, oracle, gateVars, hubVars, utilVars>>

\* EndTry: tx.Create(&nextTry); on the unique index it returns the error with
\* the transaction, and the lock of its Save, left open
EndCreate(p) ==
    /\ pc[p] = "E_create"
    /\ ~InsertWaits(p, loc[p].new.index, loc[p].new.step)
    /\ IF UniqueViolation(tries, loc[p].new.index, loc[p].new.step)
       THEN /\ Done(p, [err |-> "failed to create next step try", try |-> NoTry,
                        wait |-> 0])
            /\ Leak(p)
            /\ UNCHANGED <<nextId, loc>>
       ELSE /\ tx' = [tx EXCEPT ![p].ins = [loc[p].new EXCEPT !.id = nextId]]
            /\ loc' = [loc EXCEPT ![p].new.id = nextId]
            /\ nextId' = nextId + 1
            /\ pc' = [pc EXCEPT ![p] = "E_commit"]
            /\ UNCHANGED <<result, leaked>>
    /\ UNCHANGED <<now, env, tries, req, hubPc, hubUpdate, hist, calls, sched, rl, oracle, gateVars, hubVars, utilVars>>

\* EndTry going to the broadcasts without tx.Commit()
EndCommitSkipped(p) ==
    /\ pc[p] = "E_commit"
    /\ pc' = [pc EXCEPT ![p] = "E_bcast"]
    /\ UNCHANGED <<now, env, tries, nextId, req, loc, tx, result, leaked, hubPc,
                   hubUpdate, hist, calls, sched, rl, oracle, gateVars, hubVars, utilVars>>

\* EndTry: tx.Commit(), then the user is loaded with its groups
EndCommit(p) ==
    /\ pc[p] = "E_commit"
    /\ tries' = Apply(tries, tx[p])
    /\ tx' = [tx EXCEPT ![p] = NoTx]
    /\ \E loaded \in UserLoads :
         IF loaded
         THEN /\ pc' = [pc EXCEPT ![p] = "E_bcast"]
              /\ UNCHANGED result
         ELSE Done(p, [err |-> "failed to fetch user", try |-> NoTry, wait |-> 0])
    /\ UNCHANGED <<now, env, nextId, req, loc, leaked, hubPc, hubUpdate,
                   hist, calls, sched, rl, oracle, gateVars, hubVars, utilVars>>

\* EndTry: BroadcastTryUpdate("update") for the completed try
EndBroadcast(p) ==
    /\ pc[p] = "E_bcast"
    /\ hubPc = "recv"
    /\ hubPc' = "fanout"
    /\ hubUpdate' = TryUpdate("update", loc[p].try)
    /\ received' = received + 1
    /\ sent' = [sent EXCEPT ![p] = Append(@, "update")]
    /\ IF loc[p].new # NoTry
       THEN /\ pc' = [pc EXCEPT ![p] = "E_bcast_new"]
            /\ UNCHANGED <<result, hist>>
       ELSE /\ Done(p, [err |-> "", try |-> loc[p].try, wait |-> 0])
            /\ hist' = [hist EXCEPT ![<<req[p].index, req[p].step>>].end = @ + 1]
    /\ UNCHANGED <<now, env, tries, nextId, req, loc, tx, leaked, calls, sched, rl, oracle, gateVars,
                   clients, conn, delivered, dispatch, utilVars>>

\* EndTry: `if newTry != nil`, BroadcastTryUpdate("new"), then existingTry is returned
EndBroadcastNew(p) ==
    /\ pc[p] = "E_bcast_new"
    /\ hubPc = "recv"
    /\ hubPc' = "fanout"
    /\ hubUpdate' = TryUpdate("new", loc[p].new)
    /\ received' = received + 1
    /\ sent' = [sent EXCEPT ![p] = Append(@, "new")]
    /\ Done(p, [err |-> "", try |-> loc[p].try, wait |-> 0])
    /\ hist' = [hist EXCEPT ![<<req[p].index, req[p].step>>].end = @ + 1]
    /\ UNCHANGED <<now, env, tries, nextId, req, loc, tx, leaked, calls, sched, rl, oracle, gateVars,
                   clients, conn, delivered, dispatch, utilVars>>

\* the response is written and the handler is free for the next request
Return(p) ==
    /\ pc[p] = "done"
    /\ pc' = [pc EXCEPT ![p] = "idle"]
    /\ req' = [req EXCEPT ![p] = NoReq]
    /\ loc' = [loc EXCEPT ![p] = NoLoc]
    /\ result' = [result EXCEPT ![p] = NoResult]
    /\ oracle' = [oracle EXCEPT ![p] = "none"]
    /\ perm' = [perm EXCEPT ![p] = NoPerm]
    /\ sent' = [sent EXCEPT ![p] = <<>>]
    /\ UNCHANGED <<now, env, tries, nextId, tx, leaked, hubPc, hubUpdate, hist,
                   calls, sched, rl, permCache, clients, conn, delivered, received,
                   dispatch, utilVars>>

\* the send of handler p on the channel
BroadcastTryUpdate(p) ==
    \/ TriggerBroadcast(p)
    \/ UpdateBroadcast(p)
    \/ EndBroadcast(p)
    \/ EndBroadcastNew(p)

(* ---- realtime ---- *)

\* handleBroadcast writing to the clients of every competition
AudienceAll(registry, update) == UNION {registry[k] : k \in Competitions}

\* handleBroadcast: competitionClients[update.CompetitionID]
Audience(registry, update) == registry[update.competition]

\* handleBroadcast leaving the loop at the first write error
WrittenUntilError(cs, failed) == IF failed = {} THEN cs ELSE {}

\* handleBroadcast: the clients whose WriteJSON returned nil; for the others
\* the error is logged, the client closed and deleted, and the loop goes on
Written(cs, failed) == cs \ failed

\* a connection that shows the latest update first
WriteJSONFirst(log, update) == <<update>> \o log

\* client.WriteJSON(update): the update follows those written before
WriteJSON(log, update) == Append(log, update)

\* handleBroadcast with a WriteJSON that never returns on a connection whose
\* peer is gone
HandleBroadcastBlocked ==
    /\ hubPc = (IF sched.mutex THEN "locked" ELSE "fanout")
    /\ LET cs == Audience(clients, hubUpdate) IN
       \E failed \in {{}} :
        /\ \A c \in cs : conn[c].state # "broken"
        /\ delivered' = [c \in Conns |->
                            IF c \in Written(cs, failed)
                            THEN WriteJSON(delivered[c], hubUpdate)
                            ELSE delivered[c]]
        /\ clients' = [clients EXCEPT ![hubUpdate.competition] = @ \ failed]
        /\ dispatch' = [n |-> hubUpdate.n, competition |-> hubUpdate.competition,
                        written |-> Written(cs, failed), failed |-> failed]
    /\ hubPc' = "recv"
    /\ hubUpdate' = NoUpdate
    /\ UNCHANGED <<now, env, tries, nextId, pc, req, loc, tx, result, leaked,
                   hist, calls, sched, rl, oracle, gateVars, conn, received, sent, utilVars>>

\* handleBroadcast, one turn of the loop after `update := <-broadcast`: under
\* the mutex the update is written to each client of its competition; a
\* write can fail on a connection whose peer is gone
HandleBroadcast ==
    /\ hubPc = (IF sched.mutex THEN "locked" ELSE "fanout")
    /\ LET cs == Audience(clients, hubUpdate) IN
       \E failed \in SUBSET {c \in cs : conn[c].state = "broken"} :
        /\ delivered' = [c \in Conns |->
                            IF c \in Written(cs, failed)
                            THEN WriteJSON(delivered[c], hubUpdate)
                            ELSE delivered[c]]
        /\ clients' = [clients EXCEPT ![hubUpdate.competition] = @ \ failed]
        /\ dispatch' = [n |-> hubUpdate.n, competition |-> hubUpdate.competition,
                        written |-> Written(cs, failed), failed |-> failed]
    /\ hubPc' = "recv"
    /\ hubUpdate' = NoUpdate
    /\ UNCHANGED <<now, env, tries, nextId, pc, req, loc, tx, result, leaked,
                   hist, calls, sched, rl, oracle, gateVars, conn, received, sent, utilVars>>

\* handleBroadcast: mutex.Lock() with the update in hand
HubLock ==
    /\ sched.mutex
    /\ hubPc = "fanout"
    /\ hubPc' = "locked"
    /\ UNCHANGED <<now, env, tries, nextId, pc, req, loc, tx, result, leaked,
                   hubUpdate, hist, calls, sched, rl, oracle, gateVars, hubVars,
                   utilVars>>

\* handleBroadcast is not between mutex.Lock() and mutex.Unlock()
MutexFree == hubPc # "locked"

\* CompetitionWebSocket: upgrader.Upgrade, before RegisterClient
Upgrade(c) ==
    /\ sched.mutex
    /\ c <= LiveMaxConns
    /\ conn[c].state = "none"
    /\ \E k \in Competitions :
         conn' = [conn EXCEPT ![c] = [state |-> "upgraded", competition |-> k]]
    /\ UNCHANGED <<now, env, tries, nextId, pc, req, loc, tx, result, leaked,
                   hubPc, hubUpdate, hist, calls, sched, rl, oracle, gateVars,
                   clients, delivered, received, dispatch, sent, utilVars>>

\* CompetitionWebSocket: the connection is upgraded and registered for its
\* competition (RegisterClient, under the mutex)
CompetitionWebSocket(c) ==
    /\ conn[c].state = (IF sched.mutex THEN "upgraded" ELSE "none")
    /\ MutexFree
    /\ \E k \in (IF sched.mutex THEN {conn[c].competition} ELSE Competitions) :
        /\ conn' = [conn EXCEPT ![c] = [state |-> "open", competition |-> k]]
        /\ clients' = [clients EXCEPT ![k] = @ \cup {c}]
    /\ UNCHANGED <<now, env, tries, nextId, pc, req, loc, tx, result, leaked,
                   hubPc, hubUpdate, hist, calls, sched, rl, oracle, gateVars,
                   delivered, received, dispatch, sent, utilVars>>

\* the peer of a connection goes away: conn.ReadMessage and WriteJSON can fail
Disconnect(c) ==
    /\ conn[c].state = "open"
    /\ conn' = [conn EXCEPT ![c].state = "broken"]
    /\ UNCHANGED <<now, env, tries, nextId, pc, req, loc, tx, result, leaked,
                   hubPc, hubUpdate, hist, calls, sched, rl, oracle, gateVars,
                   clients, delivered, received, dispatch, sent, utilVars>>

\* CompetitionWebSocket after the read error: the deferred UnregisterClient
\* (under the mutex) and conn.Close()
UnregisterClient(c) ==
    /\ conn[c].state = "broken"
    /\ MutexFree
    /\ conn' = [conn EXCEPT ![c].state = "closed"]
    /\ clients' = [clients EXCEPT ![conn[c].competition] = @ \ {c}]
    /\ UNCHANGED <<now, env, tries, nextId, pc, req, loc, tx, result, leaked,
                   hubPc, hubUpdate, hist, calls, sched, rl, oracle, gateVars,
                   delivered, received, dispatch, sent, utilVars>>

(* ---- the visibility gate ---- *)

PermCacheDuration == 5 * Minute

\* the gate reading the tries of the index itself
UserHasPermissionSameIndex(table, puzzleIndex) ==
    \/ puzzleIndex = 0
    \/ Cardinality({r \in table : r.index = puzzleIndex /\ r.end # Null}) > 0

\* services.UserHasPermissionToViewPuzzle: index 0, or the count of the
\* user's tries WHERE puzzle_index = puzzleIndex - 1 AND end_time IS NOT NULL
UserHasPermissionToViewPuzzle(table, puzzleIndex) ==
    \/ puzzleIndex = 0
    \/ Cardinality({r \in table : r.index = puzzleIndex - 1 /\ r.end # Null}) > 0

\* handler UserHasPermissionToViewPuzzle: the cached answer if there is one,
\* else the answer of the service, cached for 5 minutes
GetPermission(p) ==
    /\ CanStart(p)
    /\ \E idx \in Indexes :
        LET cachedPerm == IF now < permCache[idx].expires THEN permCache[idx].value ELSE ""
            hasPermission == UserHasPermissionToViewPuzzle(tries, idx)
        IN
        /\ req' = [req EXCEPT ![p] = [name |-> "permission", index |-> idx, step |-> 0]]
        /\ calls' = calls + 1
        /\ IF cachedPerm # ""
           THEN /\ perm' = [perm EXCEPT ![p] = [asked |-> TRUE, has |-> cachedPerm = "true",
                                                cached |-> TRUE]]
                /\ UNCHANGED permCache
           ELSE /\ perm' = [perm EXCEPT ![p] = [asked |-> TRUE, has |-> hasPermission,
                                                cached |-> FALSE]]
                /\ permCache' = [permCache EXCEPT ![idx] =
                                    [value |-> IF hasPermission THEN "true" ELSE "false",
                                     expires |-> now + PermCacheDuration]]
        /\ Done(p, [err |-> "", try |-> NoTry, wait |-> 0])
    /\ UNCHANGED <<now, env, tries, nextId, loc, tx, leaked, hubPc, hubUpdate, hist,
                   sched, rl, oracle, hubVars, utilVars>>

Next ==
    \/ Tick
    \/ HandleBroadcast
    \/ \E p \in Procs :
        \/ TriggerPuzzleFirstTry(p)
        \/ TriggerCreate(p)
        \/ TriggerCommit(p)
        \/ TriggerBroadcast(p)
        \/ AnswerPuzzle(p)
        \/ CheckPuzzleAnswer(p)
        \/ UpdateSave(p)
        \/ UpdateCommit(p)
        \/ UpdateBroadcast(p)
        \/ EndSave(p)
        \/ EndCreate(p)
        \/ EndCommit(p)
        \/ EndBroadcast(p)
        \/ EndBroadcastNew(p)
        \/ Return(p)

Spec == Init /\ [][Next]_vars

SpecSeq == InitSeq /\ [][Next]_vars

\* one request at a time, the user load after a commit failing or not
SpecFault == InitFault /\ [][Next]_vars

\* the requests with the permission endpoint, over several puzzle indexes
NextGate ==
    \/ Next
    \/ \E p \in Procs : GetPermission(p)

SpecGate == InitGate /\ [][NextGate]_vars

\* the requests with WebSocket subscribers coming and going
NextHub ==
    \/ Next
    \/ \E c \in Conns :
        \/ CompetitionWebSocket(c)
        \/ Disconnect(c)
        \/ UnregisterClient(c)

SpecHub == InitHub /\ [][NextHub]_vars

\* the same with the steps of the mutex apart
NextLive ==
    \/ NextHub
    \/ HubLock
    \/ \E c \in Conns : Upgrade(c)

\* the scheduling: handleBroadcast runs on (init starts it, nothing ends it)
\* and its writes return; a send on the channel completes once the loop is at
\* its receive; Lock() returns once the mutex is free
Fairness ==
    /\ WF_vars(HubLock)
    /\ WF_vars(HandleBroadcast)
    /\ \A p \in Procs : WF_vars(BroadcastTryUpdate(p))
    /\ \A c \in Conns : WF_vars(CompetitionWebSocket(c))
    /\ \A c \in Conns : WF_vars(UnregisterClient(c))

SpecLive == InitLive /\ [][NextLive]_vars /\ Fairness

\* the submissions on a stored try, with WebSocket subscribers coming and going
NextFeed ==
    \/ Tick
    \/ HandleBroadcast
    \/ \E p \in Procs :
        \/ AnswerPuzzle(p)
        \/ CheckPuzzleAnswer(p)
        \/ UpdateSave(p)
        \/ UpdateCommit(p)
        \/ UpdateBroadcast(p)
        \/ EndSave(p)
        \/ EndCreate(p)
        \/ EndCommit(p)
        \/ EndBroadcast(p)
        \/ EndBroadcastNew(p)
        \/ Return(p)
    \/ \E c \in Conns :
        \/ CompetitionWebSocket(c)
        \/ Disconnect(c)
        \/ UnregisterClient(c)

SpecFeed == InitFeed /\ [][NextFeed]_vars

TypeOK ==
    /\ now \in 0..sched.maxTime
    /\ calls \in 0..sched.maxCalls
    /\ \A p \in Procs : tx[p].open \in BOOLEAN


(* ---- CheckRateLimit alone, on drawn tries and instants ---- *)

RlTries ==
    {[NoTry EXCEPT !.id = 1, !.step = 1, !.attempts = a, !.lastMove = m] :
        a \in 0..RlMaxAttempts, m \in {Null} \cup (0..SecondsPerMinute)}

InitRate ==
    /\ sched = Sequential
    /\ score = NoScore
    /\ limiter = NoLimiter
    /\ Start
    /\ \E t \in RlTries, n \in 0..(RlMaxMinutes * Minute) :
         rl = [NoRl EXCEPT !.try = t, !.now = n]

RateCheck ==
    /\ ~rl.checked
    /\ rl' = [rl EXCEPT !.out = CheckRateLimit(rl.try, DefaultRateLimitConfig, rl.now),
                        !.checked = TRUE]
    /\ UNCHANGED <<now, env, tries, nextId, pc, req, loc, tx, result, leaked,
                   hubPc, hubUpdate, hist, calls, sched, oracle,
                   gateVars, hubVars, utilVars>>

NextRate == RateCheck

SpecRate == InitRate /\ [][NextRate]_vars


(* ---- utils.CalculateScore alone, on drawn arguments ---- *)

\* the half minutes in a minute: time strings carry whole half minutes
HalfMinutesPerMinute == 2

\* the layout calculateTimeSpent parses, and the one the tries are stamped with
Layouts == {"2006-01-02 15:04:05.000000", "RFC3339"}

\* a time string: its layout and its instant
TimeString(layout, t) == [layout |-> layout, t |-> t]

Levels == {"EASY", "MEDIUM", "HARD"}

\* utils.calculateBaseScore
calculateBaseScore(puzzleLvl, step) ==
    CASE puzzleLvl = "EASY" /\ step = 1 -> 15
      [] puzzleLvl = "EASY" /\ step = 2 -> 35
      [] puzzleLvl = "MEDIUM" /\ step = 1 -> 35
      [] puzzleLvl = "MEDIUM" /\ step = 2 -> 65
      [] puzzleLvl = "HARD" /\ step = 1 -> 65
      [] puzzleLvl = "HARD" /\ step = 2 -> 135
      [] OTHER -> 0

\* utils.CalculateMultiplier
CalculateMultiplier(puzzleIndex) == 1 + (puzzleIndex \div 100)

\* utils.CalculateMalusFromAttempts: the first case that matches returns
CalculateMalusFromAttempts(attemps) ==
    IF attemps > 3 THEN -2
    ELSE IF attemps > 5 THEN -5
    ELSE IF attemps > 10 THEN -10
    ELSE 0

\* utils.calculateTimeSpent: 0 when a string is not in its layout, else the
\* whole minutes of the duration (int() truncates towards zero)
calculateTimeSpent(startTime, endTime) ==
    IF startTime.layout # "2006-01-02 15:04:05.000000" THEN 0
    ELSE IF endTime.layout # "2006-01-02 15:04:05.000000" THEN 0
    ELSE LET duration == endTime.t - startTime.t
         IN IF duration >= 0 THEN duration \div HalfMinutesPerMinute
            ELSE -((-duration) \div HalfMinutesPerMinute)

\* utils.CalculatePointsFromTimeSpent
CalculatePointsFromTimeSpent(puzzleLvl, startTime, endTime) ==
    LET timeSpent == calculateTimeSpent(startTime, endTime)
    IN CASE puzzleLvl = "EASY" ->
              IF timeSpent < 10 THEN 20
              ELSE IF timeSpent < 30 THEN 10
              ELSE IF timeSpent > 30 THEN -5
              ELSE 0
         [] puzzleLvl = "MEDIUM" ->
              IF timeSpent < 20 THEN 20
              ELSE IF timeSpent < 40 THEN 10
              ELSE IF timeSpent > 40 THEN -5
              ELSE 0
         [] puzzleLvl = "HARD" ->
              IF timeSpent < 40 THEN 75
              ELSE IF timeSpent < 90 THEN 40
              ELSE IF timeSpent < 120 THEN 20
              ELSE 0
         [] OTHER -> 0

\* utils.CalculateScore: calculateBaseScore is called with puzzleIndex
CalculateScore(puzzleLvl, puzzleIndex, step, startTime, endTime, attempts) ==
    LET baseScore == calculateBaseScore(puzzleLvl, puzzleIndex)
        scoreFromTime == CalculatePointsFromTimeSpent(puzzleLvl, startTime, endTime)
        multiplier == CalculateMultiplier(puzzleIndex)
        malus == CalculateMalusFromAttempts(attempts)
    IN (baseScore + scoreFromTime + malus) * multiplier

ScoreIndexes ==
    {h * 100 + i : h \in 0..ScoreMaxHundreds, i \in 0..ScoreMaxIndex}

InitScore ==
    /\ sched = Sequential
    /\ rl = NoRl
    /\ limiter = NoLimiter
    /\ Start
    /\ \E lvl \in Levels, idx \in ScoreIndexes, st \in Steps, layout \in Layouts,
          s \in 0..1, e \in 0..ScoreMaxHalfMinutes, a \in 0..ScoreMaxAttempts :
         score = [NoScore EXCEPT !.puzzleLvl = lvl, !.puzzleIndex = idx, !.step = st,
                                 !.startTime = TimeString(layout, s),
                                 !.endTime = TimeString(layout, s + e),
                                 !.attempts = a]

ScoreCheck ==
    /\ ~score.done
    /\ score' = [score EXCEPT
                   !.out = CalculateScore(score.puzzleLvl, score.puzzleIndex, score.step,
                                          score.startTime, score.endTime, score.attempts),
                   !.malus = CalculateMalusFromAttempts(score.attempts),
                   !.done = TRUE]
    /\ UNCHANGED <<now, env, tries, nextId, pc, req, loc, tx, result, leaked,
                   hubPc, hubUpdate, hist, calls, sched, rl, oracle,
                   gateVars, hubVars, limiter>>

NextScore == ScoreCheck

SpecScore == InitScore /\ [][NextScore]_vars


(* ---- middleware.RateLimiter alone, under concurrent requests ---- *)

\* the client addresses (c.ClientIP())
Ips == 1..NumIps

\* rl.visitors[ip] absent
NoVisitor == [exists |-> FALSE, tokens |-> 0, lastUpdated |-> 0]

\* a request outside Allow
NoAllow == [pc |-> "idle", ip |-> 0, out |-> FALSE]

\* requests concurrent, on the RateLimiter alone
Limited ==
    [sequential |-> FALSE, maxCalls |-> LimMaxCalls, maxTime |-> LimMaxTime,
     maxIndex |-> MaxIndex, faults |-> FALSE, mutex |-> FALSE]

\* NewRateLimiter(rate, burst); interval is time.Minute
InitLimiter ==
    /\ sched = Limited
    /\ rl = NoRl
    /\ score = NoScore
    /\ Start
    /\ \E rate \in 1..LimMaxRate, burst \in 1..LimMaxBurst :
         limiter = [rate |-> rate, burst |-> burst,
                    visitors |-> [ip \in Ips |-> NoVisitor],
                    allow |-> [p \in Procs |-> NoAllow]]

\* Allow, the refill without the cap at burst
RefillUncapped(visitor, t, rate, burst) ==
    LET elapsed == t - visitor.lastUpdated
        refill == elapsed \div Minute
    IN IF refill > 0
       THEN [visitor EXCEPT !.tokens = visitor.tokens + refill * rate,
                            !.lastUpdated = t]
       ELSE visitor

\* Allow, `// Refill tokens`: per whole interval elapsed, capped at burst
Refill(visitor, t, rate, burst) ==
    LET elapsed == t - visitor.lastUpdated
        refill == elapsed \div Minute
        tokens == visitor.tokens + refill * rate
    IN IF refill > 0
       THEN [visitor EXCEPT !.tokens = IF tokens > burst THEN burst ELSE tokens,
                            !.lastUpdated = t]
       ELSE visitor

\* Allow: rl.getVisitor(ip), under the mutex
GetVisitor(p, ip) ==
    /\ limiter.allow[p].pc = "idle"
    /\ calls < sched.maxCalls
    /\ calls' = calls + 1
    /\ limiter' =
         [limiter EXCEPT
            !.visitors[ip] = IF limiter.visitors[ip].exists THEN limiter.visitors[ip]
                             ELSE [exists |-> TRUE, tokens |-> limiter.burst,
                                   lastUpdated |-> now],
            !.allow[p] = [pc |-> "got", ip |-> ip, out |-> FALSE]]
    /\ UNCHANGED <<now, env, tries, nextId, pc, req, loc, tx, result, leaked,
                   hubPc, hubUpdate, hist, sched, rl, oracle,
                   gateVars, hubVars, score>>

\* Allow: the rest of the call, under the mutex
Allow(p) ==
    /\ limiter.allow[p].pc = "got"
    /\ LET ip == limiter.allow[p].ip
           visitor == Refill(limiter.visitors[ip], now, limiter.rate, limiter.burst)
       IN limiter' =
            [limiter EXCEPT
               !.visitors[ip] = IF visitor.tokens > 0
                                THEN [visitor EXCEPT !.tokens = visitor.tokens - 1]
                                ELSE visitor,
               !.allow[p] = [pc |-> "idle", ip |-> ip, out |-> visitor.tokens > 0]]
    /\ UNCHANGED <<now, env, tries, nextId, pc, req, loc, tx, result, leaked,
                   hubPc, hubUpdate, hist, calls, sched, rl, oracle,
                   gateVars, hubVars, score>>

NextLimiter ==
    \/ Tick
    \/ \E p \in Procs :
        \/ \E ip \in Ips : GetVisitor(p, ip)
        \/ Allow(p)

SpecLimiter == InitLimiter /\ [][NextLimiter]_vars


(* ======================================================================= *)
(* Properties                                                              *)
(* ======================================================================= *)

\* handler p is inside UpdateTry or EndTry on key <<idx, st>>
InSubmission(p, idx, st) ==
    /\ pc[p] \in {"U_save", "U_commit", "U_bcast",
                  "E_save", "E_create", "E_commit", "E_bcast", "E_bcast_new"}
    /\ req[p].index = idx
    /\ req[p].step = st

\* no UpdateTry or EndTry call on key <<idx, st>> is in progress
Quiet(idx, st) == \A p \in Procs : ~InSubmission(p, idx, st)

Ids(table) == {r.id : r \in table}

\* C1: in every reachable state the store holds at most one try for each key
\* (competition, user, puzzle, puzzle index, step), whatever the interleaving
\* of TriggerPuzzleFirstTry, UpdateTry and EndTry.
C1_OneTryPerKey ==
    \A idx \in Indexes, st \in Steps : Cardinality(Rows(tries, idx, st)) <= 1

\* C1 witness: a concurrent TriggerPuzzleFirstTry lost the race on the unique
\* index and the key has its one row.
C1_Witness ==
    \E p \in Procs :
        /\ pc[p] = "done"
        /\ req[p].name = "trigger"
        /\ result[p].try = NoTry
        /\ Cardinality(Rows(tries, req[p].index, 1)) = 1

\* C2: every caller of TriggerPuzzleFirstTry, concurrent ones included, returns
\* without error a try with the identity of the one stored row of its key.
C2_AllCallersSameRow ==
    \A p \in Procs :
        (pc[p] = "done" /\ req[p].name = "trigger") =>
            /\ result[p].err = ""
            /\ Cardinality(Rows(tries, req[p].index, 1)) = 1
            /\ result[p].try.id = First(tries, req[p].index, 1).id

\* C3: once the end_time of a try is set, no later write stores a null or a
\* different end_time for it.
C3_EndTimeKept ==
    [][\A r \in tries : r.end # Null =>
          \E r2 \in tries' : r2.id = r.id /\ r2.end = r.end]_vars

\* C4: an UpdateTry or EndTry call made on a try whose end_time is set fails
\* with "try already finished", changes no field of any try, creates no row
\* and sends no broadcast event (the step of a handler waiting for the oracle
\* is the oracle's failure or that call).
C4_FinishedIsRejected ==
    [][\A p \in Procs :
          ( /\ pc[p] = "A_check"
            /\ pc'[p] # "A_check"
            /\ First(tries, req[p].index, req[p].step).end # Null )
          => /\ pc'[p] = "done"
             /\ result'[p].err \in {"try already finished", "Failed to check solution"}
             /\ tries' = tries
             /\ tx' = tx
             /\ nextId' = nextId
             /\ hubPc' = hubPc
             /\ hubUpdate' = hubUpdate]_vars

\* C4 witness: a call on a finished try has returned "try already finished".
C4_Witness ==
    \E p \in Procs :
        /\ pc[p] = "done"
        /\ result[p].err = "try already finished"
        /\ First(tries, req[p].index, req[p].step).end # Null

\* C5: no lost update: when no submission on a key is in progress, the stored
\* attempts equal the number of UpdateTry / EndTry calls on that key that
\* returned success (a try starts at 0).
C5_NoLostUpdate ==
    \A idx \in Indexes, st \in Steps :
        (Quiet(idx, st) /\ Rows(tries, idx, st) # {}) =>
            First(tries, idx, st).attempts = hist[<<idx, st>>].upd + hist[<<idx, st>>].end

\* C6: with the submissions made one after the other, a try is created with
\* attempts = 0 and every UpdateTry or EndTry call that returned success added
\* exactly 1, the correct one being the last: attempts = K after K of them.
C6_AttemptsCountSubmissions ==
    \A idx \in Indexes, st \in Steps :
        (Quiet(idx, st) /\ Rows(tries, idx, st) # {}) =>
            LET t == First(tries, idx, st)
                h == hist[<<idx, st>>]
            IN /\ t.attempts = h.upd + h.end
               /\ h.end <= 1
               /\ (h.end = 1) = (t.end # Null)
               /\ (h.upd + h.end = 0) => (t.lastMove = Null /\ t.lastAnswer = Null)

\* C6 witness: three incorrect submissions, the cooldown, then the correct one:
\* attempts = 4 on a finished try.
C6_Witness ==
    \E t \in tries :
        /\ t.attempts = 4
        /\ t.end # Null
        /\ hist[<<t.index, t.step>>] = [upd |-> 3, end |-> 1]
        /\ Quiet(t.index, t.step)

\* C7: a step-2 try exists only if the step-1 try of the same puzzle index
\* exists and has a non-null end_time.
C7_StepTwoOnlyAfterStepOne ==
    \A r \in tries :
        r.step = 2 => \E f \in tries : f.index = r.index /\ f.step = 1 /\ f.end # Null

\* C8: the commit of EndTry on step 1 adds exactly one row, the step-2 try of
\* the same index with attempts = 0 and null end_time, together with the
\* end_time of step 1; UpdateTry and EndTry on step 2 add no row; no other step
\* adds a step-2 row; of the EndTry calls on one step-1 key exactly one
\* returns success, and one step-2 try exists afterwards.
C8_StepCascade ==
    [][ /\ \A p \in Procs :
            /\ (pc[p] = "E_commit" /\ pc'[p] = "E_bcast" /\ req[p].step = 1) =>
                  /\ Cardinality(tries' \ tries) = 2
                  /\ Cardinality(Ids(tries') \ Ids(tries)) = 1
                  /\ \E n \in tries' : /\ n.id \notin Ids(tries)
                                       /\ n.step = 2
                                       /\ n.index = req[p].index
                                       /\ n.attempts = 0
                                       /\ n.end = Null
                  /\ First(tries', req[p].index, 1).end # Null
            /\ (pc[p] = "E_commit" /\ pc'[p] = "E_bcast" /\ req[p].step = 2) =>
                  Ids(tries') = Ids(tries)
            /\ (pc[p] \in {"U_save", "U_commit", "U_bcast"} /\ pc'[p] # pc[p]) =>
                  /\ Ids(tries') = Ids(tries)
                  /\ tx'[p].ins = NoTry
        /\ \A n \in tries' :
            (n.step = 2 /\ n.id \notin Ids(tries)) =>
                \E p \in Procs : pc[p] = "E_commit" /\ req[p].step = 1
                                 /\ req[p].index = n.index /\ pc'[p] = "E_bcast"
        /\ \A idx \in Indexes :
            /\ Cardinality(Rows(tries', idx, 2)) <= 1
            /\ hist'[<<idx, 1>>].end <= 1
            /\ (Rows(tries', idx, 2) # {} /\ \A p \in Procs :
                    ~(req'[p].index = idx /\ req'[p].step = 1
                      /\ pc'[p] \in {"E_save", "E_create", "E_commit", "E_bcast",
                                     "E_bcast_new"}))
                => hist'[<<idx, 1>>].end = 1
      ]_vars

\* C8 witness: two correct step-1 submissions ran concurrently: one returned
\* success, the other failed on the step-2 insert, and one step-2 try exists.
C8_Witness ==
    \E p \in Procs :
        /\ pc[p] = "done"
        /\ result[p].err = "failed to create next step try"
        /\ hist[<<req[p].index, 1>>].end = 1
        /\ Cardinality(Rows(tries, req[p].index, 2)) = 1

\* C9: a submission that CheckRateLimit reports as blocked is answered with
\* the rate-limited result and the remaining wait at once: it never reaches
\* CheckPuzzleAnswer, UpdateTry or EndTry and changes nothing in the store.
C9_BlockedNeverReachesOracle ==
    [][\A p \in Procs :
          LET t == First(tries, req'[p].index, req'[p].step)
              r == CheckRateLimit(t, DefaultRateLimitConfig, now)
          IN ( /\ pc[p] = "idle"
               /\ pc'[p] # "idle"
               /\ req'[p].name = "answer"
               /\ t # NoTry
               /\ r.blocked )
             => /\ pc'[p] = "done"
                /\ result'[p].err = "Rate limit exceeded"
                /\ result'[p].wait = r.remaining \div Second
                /\ tries' = tries
                /\ tx' = tx
                /\ hist' = hist]_vars

\* C9 witness: a submission on a try in its cooldown was answered as rate limited.
C9_Witness ==
    \E p \in Procs :
        /\ pc[p] = "done"
        /\ result[p].err = "Rate limit exceeded"
        /\ First(tries, req[p].index, req[p].step).attempts >= 3

\* C10: CheckRateLimit answers (not blocked, 0) for a null last_move_time; with
\* attempts >= 5 it blocks exactly while now is before last_move_time + 5 min,
\* else with attempts >= 3 exactly while now is before last_move_time + 3 min,
\* with the time left as remaining; otherwise (not blocked, 0). attempts = 3:
\* a last move 2 minutes ago is blocked with 1 minute left, 4 minutes ago is
\* not blocked.
C10_CheckRateLimit ==
    rl.checked =>
        LET a == rl.try.attempts
            last == rl.try.lastMove * Second
            free == [blocked |-> FALSE, remaining |-> 0]
            Until(e) == IF rl.now < e THEN [blocked |-> TRUE, remaining |-> e - rl.now]
                        ELSE free
        IN /\ rl.try.lastMove = Null => rl.out = free
           /\ (rl.try.lastMove # Null /\ a >= 5) => rl.out = Until(last + 5 * Minute)
           /\ (rl.try.lastMove # Null /\ a >= 3 /\ a < 5) => rl.out = Until(last + 3 * Minute)
           /\ (rl.try.lastMove # Null /\ a < 3) => rl.out = free
           /\ (rl.try.lastMove # Null /\ a = 3 /\ rl.now = last + 2 * Minute)
                => rl.out = [blocked |-> TRUE, remaining |-> 1 * Minute]
           /\ (rl.try.lastMove # Null /\ a = 3 /\ rl.now = last + 4 * Minute)
                => rl.out = free

\* C10 witness: attempts = 3 and a last move 2 minutes ago, found blocked.
C10_Witness ==
    /\ rl.checked
    /\ rl.try.attempts = 3
    /\ rl.try.lastMove # Null
    /\ rl.now = rl.try.lastMove * Second + 2 * Minute
    /\ rl.out.blocked

\* the visibility gate as the specification words it: index 0, or some try of
\* the user at the index before with a non-null end_time
GateHolds(table, i) ==
    i = 0 \/ \E r \in table : r.index = i - 1 /\ r.end # Null

\* C11: a try at puzzle index i > 0 is created or changed only when the
\* visibility gate for index i holds for the user: some try of the user at
\* index i - 1 has a non-null end_time.
C11_GatedByPreviousIndex ==
    [][\A r \in tries' :
          (r.index > 0 /\ r \notin tries) => GateHolds(tries, r.index)]_vars

Sending(p) == pc[p] \in {"T_bcast", "U_bcast", "E_bcast", "E_bcast_new"}

\* this step is one turn of the dispatch loop
Dispatching == hubPc = "fanout" /\ hubPc' = "recv"

\* C13: the updates are dispatched one by one in the order in which they were
\* produced, and a subscriber that stays registered over a dispatch has the
\* update written after all it received before: of two updates E1, E2
\* produced in this order every subscriber registered throughout receives E1
\* before E2.
C13_ProductionOrder ==
    [][ /\ Dispatching =>
            /\ hubUpdate.n = dispatch.n + 1
            /\ \A c \in clients[hubUpdate.competition] \cap clients'[hubUpdate.competition] :
                  delivered'[c] = Append(delivered[c], hubUpdate)
        /\ \A c \in Conns : \A i, j \in 1..Len(delivered'[c]) :
              i < j => delivered'[c][i].n < delivered'[c][j].n
      ]_vars

\* C13 witness: a subscriber registered throughout received the first update
\* and then the second.
C13_Witness ==
    \E c \in Conns :
        /\ Len(delivered[c]) = 2
        /\ delivered[c][1].n = 1
        /\ delivered[c][2].n = 2
        /\ c \in clients[CompetitionID]

\* C14: a producer at BroadcastTryUpdate can always complete its send: it
\* never waits for the dispatch loop to finish the delivery of an earlier
\* update.
C14_ProducerNeverWaits ==
    \A p \in Procs : Sending(p) => ENABLED BroadcastTryUpdate(p)

\* C15: when writes fail during a dispatch, the failed subscribers are removed
\* from the registry and receive nothing, every other subscriber of the
\* competition has the update written, the loop goes back to receiving, and
\* no producer sees the failure.
C15_FailedWriteIsolated ==
    [][Dispatching =>
          LET cs == clients[hubUpdate.competition]
              failed == dispatch'.failed
          IN /\ failed \subseteq cs
             /\ clients'[hubUpdate.competition] = cs \ failed
             /\ \A c \in failed : delivered'[c] = delivered[c]
             /\ \A c \in cs \ failed : delivered'[c] = Append(delivered[c], hubUpdate)
             /\ pc' = pc
             /\ result' = result
      ]_vars

\* C15 witness: in one dispatch the write to one subscriber failed and another
\* subscriber received the update.
C15_Witness ==
    /\ dispatch.failed # {}
    /\ \E c \in dispatch.written :
          /\ delivered[c] # <<>>
          /\ delivered[c][Len(delivered[c])].n = dispatch.n
    /\ \A c \in dispatch.failed : c \notin clients[dispatch.competition]

C17_ViolationRecovered ==
    [][\A p \in Procs :
          (pc[p] = "T_create" /\ pc'[p] = "done") =>
              /\ result'[p].err = ""
              /\ result'[p].try \in Rows(tries', req[p].index, 1)
      ]_vars

\* C18: an update is written only by the dispatch of that update, once, and
\* only to connections registered for its competition at that moment; no
\* connection receives an update twice, an update of another competition, or
\* an update dispatched before.
C18_AtMostOnceToRegistered ==
    [][ /\ \A c \in Conns :
              delivered'[c] # delivered[c] =>
                  /\ Dispatching
                  /\ c \in clients[hubUpdate.competition]
                  /\ hubUpdate.n > dispatch.n
                  /\ delivered'[c] = Append(delivered[c], hubUpdate)
        /\ \A c \in Conns : \A i \in 1..Len(delivered'[c]) :
              /\ delivered'[c][i].competition = conn'[c].competition
              /\ \A j \in 1..Len(delivered'[c]) :
                    i # j => delivered'[c][i].n # delivered'[c][j].n
      ]_vars

\* C18 witness: an update was dispatched to a subscriber of its competition
\* while a connection registered for the other competition, and one
\* registered afterwards, received nothing.
C18_Witness ==
    /\ dispatch.written # {}
    /\ \E c \in Conns :
          /\ conn[c].state = "open"
          /\ conn[c].competition # dispatch.competition
          /\ c \in clients[conn[c].competition]
          /\ delivered[c] = <<>>

\* C19: when the catalog call fails or answers malformed data, the submission
\* ends with "Failed to check solution" (500) and nothing is changed: no
\* transaction is begun, no try is written, no update is sent.
C19_OracleFailureChangesNothing ==
    [][\A p \in Procs :
          ( /\ pc[p] = "A_check"
            /\ pc'[p] # "A_check"
            /\ oracle'[p] \in {"failed", "missing", "notbool"} ) =>
              /\ pc'[p] = "done"
              /\ result'[p].err = "Failed to check solution"
              /\ AnswerPuzzleStatus(result'[p]) = 500
              /\ tries' = tries
              /\ tx' = tx
              /\ leaked' = leaked
              /\ hist' = hist
              /\ hubUpdate' = hubUpdate
              /\ received' = received
      ]_vars

\* C19 witness: a submission on a try already answered once ended on a
\* malformed answer of the catalog.
C19_Witness ==
    \E p \in Procs :
        /\ pc[p] = "done"
        /\ oracle[p] = "notbool"
        /\ result[p].err = "Failed to check solution"
        /\ First(tries, req[p].index, req[p].step).attempts = 1

\* C20: a submission for a key without a try ends at once with "try not
\* found" as a client error (4xx), creates no row and makes no catalog call.
C20_MissingTryIsClientError ==
    [][\A p \in Procs :
          ( /\ pc[p] = "idle"
            /\ pc'[p] # "idle"
            /\ req'[p].name = "answer"
            /\ First(tries, req'[p].index, req'[p].step) = NoTry ) =>
              /\ pc'[p] = "done"
              /\ result'[p].err = "try not found"
              /\ AnswerPuzzleStatus(result'[p]) \in 400..499
              /\ tries' = tries
              /\ tx' = tx
              /\ oracle' = oracle
      ]_vars

\* the base score of the (level, step) table
BaseScoreTable(puzzleLvl, step) == calculateBaseScore(puzzleLvl, step)

\* C21: CalculateScore(level, index, step, start, end, attempts) is (base score
\* of the (level, step) table + time points of (level, elapsed minutes) +
\* attempts malus) multiplied by 1 + floor(index / 100).
C21_ScoreFormula ==
    score.done =>
        score.out =
            ( BaseScoreTable(score.puzzleLvl, score.step)
              + CalculatePointsFromTimeSpent(score.puzzleLvl, score.startTime, score.endTime)
              + CalculateMalusFromAttempts(score.attempts) )
            * (1 + (score.puzzleIndex \div 100))

\* the penalty as the thresholds 3, 5 and 10 grade it
MalusTable(attempts) ==
    IF attempts <= 3 THEN 0
    ELSE IF attempts <= 5 THEN -2
    ELSE IF attempts <= 10 THEN -5
    ELSE -10

Abs(n) == IF n >= 0 THEN n ELSE -n

\* C30: CalculateMalusFromAttempts returns 0 up to 3 attempts, -2 up to 5, -5
\* up to 10 and -10 beyond, and a larger attempt count never yields a smaller
\* penalty in absolute value.
C30_MalusTable ==
    score.done =>
        /\ score.malus = MalusTable(score.attempts)
        /\ \A a \in 0..score.attempts :
              Abs(CalculateMalusFromAttempts(a)) <= Abs(score.malus)


\* the tokens of a visitor after `intervals` whole intervals: rate tokens per
\* interval, capped at burst
Available(tokens, intervals, rate, burst) ==
    IF tokens + intervals * rate > burst THEN burst ELSE tokens + intervals * rate

C23_TransactionClosedAtReturn ==
    /\ leaked.n = 0
    /\ leaked.locks = {}
    /\ \A p \in Procs : pc[p] \in {"idle", "done"} => ~tx[p].open


\* C24: a call of TriggerPuzzleFirstTry, UpdateTry or EndTry that returns an
\* error has persisted nothing, also when the user load after the commit is
\* what failed: the step that ends the call in error leaves the store as it
\* was, and no earlier step of the call has written to it.
C24_ErrorPersistsNothing ==
    [][\A p \in Procs :
          ( /\ pc[p] \notin {"idle", "done"}
            /\ pc'[p] = "done"
            /\ result'[p].err # "" ) =>
              tries' = tries
      ]_vars


\* C25: a successful UpdateTry has sent exactly one "update"; a successful
\* EndTry has sent an "update" carrying the completed try and then, exactly
\* when it created the step-2 row, a "new" carrying that row; every one of
\* these sends comes after the commit of the call's transaction.
C25_EventsAfterCommit ==
    [][\A p \in Procs :
          /\ ( /\ req[p].name = "answer"
               /\ pc[p] \notin {"idle", "done"}
               /\ pc'[p] = "done"
               /\ result'[p].err = "" ) =>
                 IF oracle[p] = "true"
                 THEN /\ result'[p].try.end # Null
                      /\ sent'[p] = IF \E r \in tries : r.id = loc[p].new.id
                                    THEN <<"update", "new">>
                                    ELSE <<"update">>
                      /\ (req[p].step = 1) = (\E r \in tries : r.id = loc[p].new.id)
                 ELSE sent'[p] = <<"update">>
          /\ (req[p].name = "answer" /\ sent'[p] # sent[p] /\ sent'[p] # <<>>) =>
                 /\ ~tx[p].open
                 /\ received' = received + 1
                 /\ hubUpdate'.type = sent'[p][Len(sent'[p])]
                 /\ hubUpdate'.try.id \in Ids(tries)
                 /\ hubUpdate'.type = "update" =>
                       /\ hubUpdate'.try = loc[p].try
                       /\ hubUpdate'.try.index = req[p].index
                       /\ hubUpdate'.try.step = req[p].step
                       /\ (hubUpdate'.try.end # Null) = (oracle[p] = "true")
                 /\ hubUpdate'.type = "new" =>
                       /\ hubUpdate'.try = loc[p].new
                       /\ hubUpdate'.try.index = req[p].index
                       /\ hubUpdate'.try.step = 2
                       /\ hubUpdate'.try.attempts = 0
                       /\ hubUpdate'.try.end = Null
      ]_vars

\* C25 witness: a correct answer on step 1 has returned after its "update" and
\* its "new", and the step-2 row it created is stored.
C25_Witness ==
    \E p \in Procs :
        /\ pc[p] = "done"
        /\ req[p].name = "answer"
        /\ req[p].step = 1
        /\ result[p].err = ""
        /\ sent[p] = <<"update", "new">>
        /\ hubUpdate.type = "new"
        /\ hubUpdate.try \in tries
        /\ hubUpdate.try.step = 2


\* C22: whenever a submission rewrites a try whose stored attempts were
\* already at the first (resp. second) threshold just before, the first (resp.
\* second) cooldown has elapsed since the last_move_time stored just before,
\* concurrent submissions on the key included.
C22_CooldownNotBypassed ==
    [][\A r \in tries, w \in tries' :
          (w.id = r.id /\ w # r) =>
             /\ r.attempts >= DefaultRateLimitConfig.AttemptsThreshold1 =>
                   now >= ParseRFC3339(r.lastMove)
                            + DefaultRateLimitConfig.CooldownDuration1
             /\ r.attempts >= DefaultRateLimitConfig.AttemptsThreshold2 =>
                   now >= ParseRFC3339(r.lastMove)
                            + DefaultRateLimitConfig.CooldownDuration2
      ]_vars

\* C26: in what one subscriber receives for one try, in order, attempts never
\* decreases and no snapshot with a null end_time follows one with an
\* end_time, concurrent submissions included.
C26_SnapshotsInCommitOrder ==
    \A c \in Conns :
        \A i, j \in 1..Len(delivered[c]) :
            (i < j /\ delivered[c][i].try.id = delivered[c][j].try.id) =>
                /\ delivered[c][i].try.attempts <= delivered[c][j].try.attempts
                /\ delivered[c][i].try.end # Null => delivered[c][j].try.end # Null


\* C28: every answer of the permission endpoint, the cached ones included,
\* is the current value of the visibility gate on the store; once the try at
\* index i-1 has an end_time, a permission request for index i answers true.
C28_EndpointEqualsGate ==
    [][\A p \in Procs :
          (pc[p] = "idle" /\ perm'[p].asked) =>
              perm'[p].has = GateHolds(tries, req'[p].index)
      ]_vars


\* C27: with handleBroadcast running on and every write returning, every
\* BroadcastTryUpdate call returns, every update taken from the channel is
\* dispatched, the mutex is released, and every RegisterClient and
\* UnregisterClient call returns.
C27_HubLiveness ==
    /\ \A p \in Procs : Sending(p) ~> (pc[p] = "done")
    /\ \A n \in 1..(2 * LiveMaxCalls) : (received = n) ~> (dispatch.n = n)
    /\ (hubPc = "locked") ~> (hubPc = "recv")
    /\ \A c \in Conns : (conn[c].state = "upgraded") ~> (conn[c].state = "open")
    /\ \A c \in Conns : (conn[c].state = "broken") ~> (conn[c].state = "closed")

\* C27 witness: two producers are at their sends while handleBroadcast holds
\* the mutex over a fan-out to a connection whose peer is gone, with its
\* UnregisterClient waiting.
C27_Witness ==
    /\ hubPc = "locked"
    /\ \A p \in Procs : Sending(p)
    /\ \E c \in Conns :
          /\ conn[c].state = "broken"
          /\ c \in clients[hubUpdate.competition]


====
